---- MODULE Spec2Model ----
(***************************************************************************)
(* Page chrome controller of the FastEndpoints documentation site:         *)
(* src/src/routes/__layout-kit-docs.svelte.                                *)
(*                                                                         *)
(* The component reads three externally owned reactive values (the         *)
(* $navigating store, the `meta` prop and the $activeCategory store) and   *)
(* the $page store, and derives from them the progress indicator's         *)
(* start()/done() signals, the `category` prefix, the `title` and the      *)
(* document title written by <svelte:head>.                                *)
(*                                                                         *)
(* One action of the model is one event of the host framework together     *)
(* with the component update it causes: the event invalidates the values   *)
(* it changes (the set Dirty), the reactive statements whose dependencies  *)
(* are dirty run once, in source order, and the head fragment is patched.  *)
(*                                                                         *)
(* Strings are sequences of one-character strings, so that template        *)
(* literals are modelled by concatenation.  JavaScript null is None.       *)
(***************************************************************************)
EXTENDS Integers, Sequences, FiniteSets, TLC

VARIABLES
    navigating,      \* value of the $navigating store: None or a transition
    pathname,        \* $page.url.pathname
    meta,            \* the `meta` prop: None or [some, title]
    activeCategory,  \* value of the $activeCategory store: None or a string
    category,        \* `$: category`
    title,           \* `$: title`: None or a string
    docTitle,        \* document.title as written by <title>{title}</title>
    visible,         \* the progress indicator is started and not yet done
    starts,          \* start() signals since $navigating took its value
    dones,           \* done() signals since $navigating took its value
    titleRuns,       \* times `$: title` ran in the latest component update
    lastEvent,       \* the event that caused the latest component update
    sameInputs,      \* the latest event left every input value as it was
    repeated,        \* the latest event is of the same kind as the one before
    lastSignals,     \* signals sent by the latest component update, in order
    restarted,       \* start() was sent again with no done() in between
    failed,          \* a reactive statement has thrown
    description,     \* `$: description`
    progressConfig,  \* settings of the progress indicator
    configureCalls,  \* calls of NProgress.configure
    siteConfig,      \* the imported `config` record
    rendered         \* head tags and widget props rendered from `config`

vars == <<navigating, pathname, meta, activeCategory, category, title,
          docTitle, visible, starts, dones, titleRuns, lastEvent, sameInputs,
          repeated, lastSignals, restarted, failed, description,
          progressConfig, configureCalls, siteConfig, rendered>>

(***************************************************************************)
(* Bounds of the input domains.                                            *)
(***************************************************************************)
MaxPathLen == 1
MaxTitleLen == 1
MaxCatLen == 1
MaxSignals == 3

PathChars == {"a"}
TitleChars == {"V"}
CatChars == {"D"}

RECURSIVE StringsUpTo(_, _)
StringsUpTo(chars, n) ==
    IF n = 0 THEN {<<>>}
    ELSE LET shorter == StringsUpTo(chars, n - 1)
         IN  shorter \cup {Append(s, ch) : s \in shorter, ch \in chars}

None == [some |-> FALSE]
Some(v) == [some |-> TRUE, val |-> v]

Paths == {<<"/">> \o s : s \in StringsUpTo(PathChars, MaxPathLen)}
Transitions == {[some |-> TRUE, from |-> f, to |-> t] : f \in Paths, t \in Paths}
Descriptions == {None, Some(<<"R">>)}
Metas ==
    {None} \cup {[some |-> TRUE, title |-> t, description |-> d] :
                    t \in StringsUpTo(TitleChars, MaxTitleLen), d \in Descriptions}
Categories == {None} \cup {Some(c) : c \in StringsUpTo(CatChars, MaxCatLen)}

(***************************************************************************)
(* The site name of the title template.                                    *)
(***************************************************************************)
SiteName == <<"F", "a", "s", "t", "E", "n", "d", "p", "o", "i", "n", "t", "s">>

(***************************************************************************)
(* The record exported by ../config, with stand-in values for its fields.  *)
(***************************************************************************)
SiteConfig ==
    [siteUrl        |-> <<"u">>,
     seoDescription |-> <<"s">>,
     seoKeywords    |-> << <<"k">>, <<"w">> >>,
     ogType         |-> <<"t">>,
     ogSiteName     |-> <<"n">>,
     ogDescription  |-> <<"e">>,
     ogTitle        |-> <<"o">>,
     ogLocale       |-> <<"l">>,
     algoliaApiKey  |-> <<"y">>,
     algoliaAppId   |-> <<"i">>,
     github         |-> <<"g">>,
     discord        |-> <<"c">>]

(***************************************************************************)
(* NProgress.configure({ minimum: 0.16, easing: 'ease',                    *)
(*                       showSpinner: false });                            *)
(* `minimum` is kept in hundredths.                                        *)
(***************************************************************************)
ConfigureOptions_DefaultSpinner ==
    [minimum |-> 16, easing |-> "ease", showSpinner |-> TRUE]
ConfigureOptions ==
    [minimum |-> 16, easing |-> "ease", showSpinner |-> FALSE]

(***************************************************************************)
(* Change detection of the host framework: a store notifies, and a         *)
(* component value is invalidated, when the new value is an object or      *)
(* differs from the old one.                                               *)
(***************************************************************************)
ObjectChanged(old, new) == old.some \/ new.some
PrimitiveChanged(old, new) == old # new

(***************************************************************************)
(* $: { if ($navigating?.from.pathname !== $navigating?.to.pathname)       *)
(*        NProgress.start();                                               *)
(*      if (!$navigating) NProgress.done(); }                              *)
(***************************************************************************)
OptPath(nav, field) == IF nav.some THEN Some(nav[field]) ELSE None

StartCond_NoPathCheck(nav) == nav.some
StartCond_NullStarts(nav) == ~nav.some \/ nav.from # nav.to
StartCond(nav) == OptPath(nav, "from") # OptPath(nav, "to")

DoneCond_Never(nav) == FALSE
DoneCond_OrSamePath(nav) == ~nav.some \/ nav.from = nav.to
DoneCond(nav) == ~nav.some

NProgressStart(v) == TRUE

NProgressDone_NoEffect(v) == v
NProgressDone(v) == FALSE

RunsProgress_Always(Dirty) == TRUE
RunsProgress(Dirty) == "navigating" \in Dirty

(***************************************************************************)
(* Reading a property of null throws.  `$navigating?.from.pathname` reads  *)
(* `from` only of a transition; `meta ? ... meta.title ... : null` reads   *)
(* `title` only of present metadata.                                       *)
(***************************************************************************)
ReadThrows(obj) == ~obj.some

ProgressThrows_NoOptionalChain(nav) == ReadThrows(nav)
ProgressThrows(nav) == IF nav.some THEN ReadThrows(nav) ELSE FALSE

(***************************************************************************)
(* $: category = $activeCategory ? `${$activeCategory}: ` : '';            *)
(***************************************************************************)
Truthy(s) == s.some /\ s.val # <<>>

CategoryOf_NoSeparator(c) == IF Truthy(c) THEN c.val ELSE <<>>
CategoryOf_AlwaysPrefix(c) == (IF c.some THEN c.val ELSE <<>>) \o <<":", " ">>
CategoryOf_NullCheckOnly(c) == IF c.some THEN c.val \o <<":", " ">> ELSE <<>>
CategoryOf(c) == IF Truthy(c) THEN c.val \o <<":", " ">> ELSE <<>>

(***************************************************************************)
(* $: title = meta ? `${category}${meta.title} | FastEndpoints` : null;    *)
(***************************************************************************)
TitleOf_NoMetaCheck(m, cat) ==
    Some(cat \o (IF m.some THEN m.title ELSE <<>>) \o <<" ", "|", " ">> \o SiteName)
TitleOf(m, cat) ==
    IF m.some THEN Some(cat \o m.title \o <<" ", "|", " ">> \o SiteName) ELSE None

TitleThrows_NoMetaCheck(m) == ReadThrows(m)
TitleThrows(m) == IF m.some THEN ReadThrows(m) ELSE FALSE

CategoryInvalidated_Always(old, new) == TRUE
CategoryInvalidated(old, new) == PrimitiveChanged(old, new)

(***************************************************************************)
(* `$: title` depends on `meta` and `category`.                            *)
(***************************************************************************)
RunsTitle_CategoryOnly(Dirty, catDirty) == catDirty
RunsTitle_OnNavigating(Dirty, catDirty) == "navigating" \in Dirty \/ catDirty
RunsTitle(Dirty, catDirty) == "meta" \in Dirty \/ catDirty

(***************************************************************************)
(* <svelte:head>{#key $page.url.pathname}{#if title}<title>{title}</title> *)
(* The fragment writes document.title when the <title> is created (the key *)
(* changed, or `title` became truthy) or when `title` changed; it never    *)
(* clears document.title.                                                  *)
(***************************************************************************)
HeadTitle_CreateOnly(oldDoc, oldPath, newPath, oldTitle, newTitle) ==
    IF Truthy(newTitle) /\ (oldPath # newPath \/ ~Truthy(oldTitle))
    THEN newTitle ELSE oldDoc
HeadTitle(oldDoc, oldPath, newPath, oldTitle, newTitle) ==
    IF Truthy(newTitle)
       /\ (oldPath # newPath \/ ~Truthy(oldTitle) \/ oldTitle # newTitle)
    THEN newTitle ELSE oldDoc

(***************************************************************************)
(* $: description = meta?.description;                                     *)
(***************************************************************************)
DescriptionOf(m) == IF m.some THEN m.description ELSE None

(***************************************************************************)
(* The tags of <svelte:head> and the props of Algolia and SocialLink that  *)
(* are rendered from `config`; keywords are joined with ', '.              *)
(***************************************************************************)
RECURSIVE Join(_, _)
Join(list, sep) ==
    IF list = <<>> THEN <<>>
    ELSE IF Len(list) = 1 THEN Head(list)
    ELSE Head(list) \o sep \o Join(Tail(list), sep)

HeadTags_PageDescription(cfg, path, desc) ==
    [description   |-> IF desc.some THEN desc.val ELSE cfg.seoDescription,
     keywords      |-> Join(cfg.seoKeywords, <<",", " ">>),
     ogUrl         |-> cfg.siteUrl \o path,
     ogType        |-> cfg.ogType,
     ogSiteName    |-> cfg.ogSiteName,
     ogDescription |-> cfg.ogDescription,
     ogTitle       |-> cfg.ogTitle,
     ogLocale      |-> cfg.ogLocale,
     apiKey        |-> cfg.algoliaApiKey,
     appId         |-> cfg.algoliaAppId,
     github        |-> cfg.github,
     discord       |-> cfg.discord]
HeadTags(cfg, path, desc) ==
    [description   |-> cfg.seoDescription,
     keywords      |-> Join(cfg.seoKeywords, <<",", " ">>),
     ogUrl         |-> cfg.siteUrl \o path,
     ogType        |-> cfg.ogType,
     ogSiteName    |-> cfg.ogSiteName,
     ogDescription |-> cfg.ogDescription,
     ogTitle       |-> cfg.ogTitle,
     ogLocale      |-> cfg.ogLocale,
     apiKey        |-> cfg.algoliaApiKey,
     appId         |-> cfg.algoliaAppId,
     github        |-> cfg.github,
     discord       |-> cfg.discord]

(***************************************************************************)
(* The tags inside {#key $page.url.pathname} are rendered again when $page *)
(* changes.                                                                *)
(***************************************************************************)
RendersHead_Never(Dirty) == FALSE
RendersHead(Dirty) == "page" \in Dirty

Bump(n) == IF n < MaxSignals THEN n + 1 ELSE n

(***************************************************************************)
(* The instance script assigns neither `$navigating` nor `meta`: after the *)
(* update both hold what the event delivered.                              *)
(***************************************************************************)
KeptNavigating_ClearsSamePath(nav) ==
    IF nav.some /\ nav.from = nav.to THEN None ELSE nav
KeptNavigating(nav) == nav

KeptMeta(m) == m

(***************************************************************************)
(* The component update run after an event: nav, path, m and c are the     *)
(* values of the inputs after the event, Dirty names the invalidated       *)
(* ones, ev the event.                                                     *)
(***************************************************************************)
Update(nav, path, m, c, Dirty, ev) ==
    LET runProgress == RunsProgress(Dirty)
        doStart     == runProgress /\ StartCond(nav)
        doDone      == runProgress /\ DoneCond(nav)
        afterStart  == IF doStart THEN NProgressStart(visible) ELSE visible
        newCategory == IF "activeCategory" \in Dirty THEN CategoryOf(c) ELSE category
        catDirty    == "activeCategory" \in Dirty
                       /\ CategoryInvalidated(category, newCategory)
        runTitle    == RunsTitle(Dirty, catDirty)
        signals     == (IF doStart THEN <<"start">> ELSE <<>>)
                       \o (IF doDone THEN <<"done">> ELSE <<>>)
        newTitle    == IF runTitle THEN TitleOf(m, newCategory) ELSE title
        fresh       == "navigating" \in Dirty
        newDesc     == IF "meta" \in Dirty THEN DescriptionOf(m) ELSE description
    IN  /\ navigating' = KeptNavigating(nav)
        /\ pathname' = path
        /\ meta' = KeptMeta(m)
        /\ activeCategory' = c
        /\ visible' = IF doDone THEN NProgressDone(afterStart) ELSE afterStart
        /\ starts' = IF doStart THEN Bump(IF fresh THEN 0 ELSE starts)
                     ELSE IF fresh THEN 0 ELSE starts
        /\ dones' = IF doDone THEN Bump(IF fresh THEN 0 ELSE dones)
                    ELSE IF fresh THEN 0 ELSE dones
        /\ category' = newCategory
        /\ title' = newTitle
        /\ titleRuns' = IF runTitle THEN 1 ELSE 0
        /\ docTitle' = HeadTitle(docTitle, pathname, path, title, newTitle)
        /\ lastEvent' = ev
        /\ sameInputs' = (nav = navigating /\ path = pathname
                           /\ m = meta /\ c = activeCategory)
        /\ repeated' = (ev = lastEvent)
        /\ lastSignals' = signals
        /\ restarted' = IF doDone THEN FALSE
                         ELSE IF doStart /\ visible THEN TRUE
                         ELSE restarted
        /\ failed' = (\/ failed
                      \/ runProgress /\ ProgressThrows(nav)
                      \/ runTitle /\ TitleThrows(m))
        /\ description' = newDesc
        /\ rendered' = IF RendersHead(Dirty)
                        THEN HeadTags(siteConfig, path, newDesc)
                        ELSE rendered
        /\ UNCHANGED <<progressConfig, configureCalls, siteConfig>>

(***************************************************************************)
(* Component construction: the instance script runs with the values the    *)
(* stores and props have at that moment and every reactive statement runs  *)
(* once.  The layout may be created while a transition to its first page   *)
(* is still in flight.                                                     *)
(***************************************************************************)
Init ==
    /\ pathname \in Paths
    /\ navigating \in {None} \cup {t \in Transitions : t.to = pathname}
    /\ meta \in Metas
    /\ activeCategory \in Categories
    /\ category = CategoryOf(activeCategory)
    /\ title = TitleOf(meta, category)
    /\ docTitle = IF Truthy(title) THEN title ELSE None
    /\ visible = IF DoneCond(navigating) THEN NProgressDone(StartCond(navigating))
                 ELSE StartCond(navigating)
    /\ starts = IF StartCond(navigating) THEN 1 ELSE 0
    /\ dones = IF DoneCond(navigating) THEN 1 ELSE 0
    /\ titleRuns = 1
    /\ lastEvent = "init"
    /\ sameInputs = FALSE
    /\ repeated = FALSE
    /\ lastSignals = (IF StartCond(navigating) THEN <<"start">> ELSE <<>>)
                     \o (IF DoneCond(navigating) THEN <<"done">> ELSE <<>>)
    /\ restarted = FALSE
    /\ failed = (ProgressThrows(navigating) \/ TitleThrows(meta))
    /\ description = DescriptionOf(meta)
    /\ progressConfig = ConfigureOptions
    /\ configureCalls = 1
    /\ siteConfig = SiteConfig
    /\ rendered = HeadTags(siteConfig, pathname, description)

(***************************************************************************)
(* The router starts a transition from the current page: $navigating is    *)
(* set to a new transition object.                                         *)
(***************************************************************************)
StartNavigation(to) ==
    LET nav == [some |-> TRUE, from |-> pathname, to |-> to]
    IN  /\ ObjectChanged(navigating, nav)
        /\ Update(nav, pathname, meta, activeCategory, {"navigating"}, "navigating")

(***************************************************************************)
(* The router ends the transition: $navigating is set to null.             *)
(***************************************************************************)
EndNavigation ==
    /\ ObjectChanged(navigating, None)
    /\ Update(None, pathname, meta, activeCategory, {"navigating"}, "navigating")

(***************************************************************************)
(* The router renders the destination page of the transition in flight:    *)
(* $page, the `meta` prop and $activeCategory change in one update.        *)
(***************************************************************************)
PageLoaded(m, c) ==
    /\ navigating.some
    /\ Update(navigating, navigating.to, m, c,
              {"page"}
                \cup (IF ObjectChanged(meta, m) THEN {"meta"} ELSE {})
                \cup (IF PrimitiveChanged(activeCategory, c)
                      THEN {"activeCategory"} ELSE {}),
              "page")

(***************************************************************************)
(* The parent assigns the `meta` prop (possibly to an equal value).        *)
(***************************************************************************)
SetMeta(m) ==
    /\ ObjectChanged(meta, m)
    /\ Update(navigating, pathname, m, activeCategory, {"meta"}, "meta")

(***************************************************************************)
(* The sidebar context publishes another active category.                  *)
(***************************************************************************)
SetActiveCategory(c) ==
    /\ PrimitiveChanged(activeCategory, c)
    /\ Update(navigating, pathname, meta, c, {"activeCategory"}, "activeCategory")

Next ==
    \/ \E to \in Paths : StartNavigation(to)
    \/ EndNavigation
    \/ \E m \in Metas, c \in Categories : PageLoaded(m, c)
    \/ \E m \in Metas : SetMeta(m)
    \/ \E c \in Categories : SetActiveCategory(c)

Spec == Init /\ [][Next]_vars

(***************************************************************************)
(* The router ends every transition it has started: while a transition is  *)
(* in flight EndNavigation stays enabled, and it is eventually taken.      *)
(***************************************************************************)
FairSpec == Spec /\ WF_vars(EndNavigation)

TypeOK ==
    /\ navigating \in {None} \cup Transitions
    /\ pathname \in Paths
    /\ meta \in Metas
    /\ activeCategory \in Categories
    /\ visible \in BOOLEAN
    /\ starts \in 0..MaxSignals
    /\ dones \in 0..MaxSignals
    /\ titleRuns \in 0..1
    /\ lastEvent \in {"init", "navigating", "page", "meta", "activeCategory"}
    /\ sameInputs \in BOOLEAN
    /\ repeated \in BOOLEAN
    /\ lastSignals \in {<<>>, <<"start">>, <<"done">>, <<"start", "done">>}
    /\ restarted \in BOOLEAN
    /\ failed \in BOOLEAN
    /\ description \in Descriptions
    /\ progressConfig \in [minimum : 0..100, easing : {"ease", "linear"},
                           showSpinner : BOOLEAN]
    /\ configureCalls = 1
    /\ siteConfig = SiteConfig

(***************************************************************************)
(* The forms of the title named by the specification.                      *)
(***************************************************************************)
TitleSuffix == <<" ", "|", " ">> \o SiteName
PrefixedForm(c, t) == c \o <<":", " ">> \o t \o TitleSuffix
BareForm(t) == t \o TitleSuffix
SamePath(nav) == nav.some /\ nav.from = nav.to
OtherPath(nav) == nav.some /\ nav.from # nav.to

(***************************************************************************)
(* C1: while the navigation value is a transition whose origin path equals *)
(* its destination path, the progress indicator has received no start()    *)
(* signal for that value, whatever values came before it.                  *)
(***************************************************************************)
C1_SamePathNoStart == SamePath(navigating) => starts = 0

C1_Witness ==
    /\ SamePath(navigating)
    /\ lastEvent = "navigating"
    /\ visible
    /\ starts = 0

(***************************************************************************)
(* C2: while the navigation value is a transition whose origin path        *)
(* differs from its destination path, the progress indicator has received  *)
(* exactly one start() signal for that value, also after later metadata,   *)
(* category and page events.                                               *)
(***************************************************************************)
C2_OtherPathOneStart == OtherPath(navigating) => starts = 1

C2_Witness ==
    /\ OtherPath(navigating)
    /\ lastEvent = "meta"
    /\ sameInputs
    /\ starts = 1

(***************************************************************************)
(* C3: while the navigation value is absent, the progress indicator has    *)
(* received exactly one done() signal since the value became absent.       *)
(***************************************************************************)
C3_AbsentOneDone == ~navigating.some => dones = 1

C3_Witness ==
    /\ ~navigating.some
    /\ lastEvent = "activeCategory"
    /\ dones = 1
    /\ starts = 0

(***************************************************************************)
(* C4 as stated: the indicator is visible exactly when the current         *)
(* navigation value is a transition with differing paths.                  *)
(***************************************************************************)
C4_VisibleIsFunctionOfNavigating == visible <=> OtherPath(navigating)

(***************************************************************************)
(* C4 as amended: the indicator is hidden whenever no transition is in     *)
(* flight and visible whenever the transition in flight has differing      *)
(* paths; a same-path transition sends no signal, so the indicator keeps   *)
(* the state it had before that transition was set.                        *)
(***************************************************************************)
C4_VisibleAmended ==
    /\ [](~navigating.some => ~visible)
    /\ [](OtherPath(navigating) => visible)
    /\ [][(lastEvent' = "navigating" /\ SamePath(navigating'))
            => visible' = visible]_vars

C4_Witness ==
    /\ SamePath(navigating)
    /\ visible
    /\ lastEvent = "navigating"

(***************************************************************************)
(* C5 as stated: with metadata present and the active category present     *)
(* (any string, the empty one included), the title is the                  *)
(* category-prefixed form.                                                 *)
(***************************************************************************)
C5_PresentCategoryPrefixed ==
    (meta.some /\ activeCategory.some)
        => title = Some(PrefixedForm(activeCategory.val, meta.title))

(***************************************************************************)
(* C5 as amended: with metadata present and the active category a          *)
(* non-empty string, the title is "<c>: <m.title> | FastEndpoints".        *)
(***************************************************************************)
C5_NonEmptyCategoryPrefixed ==
    (meta.some /\ activeCategory.some /\ activeCategory.val # <<>>)
        => title = Some(PrefixedForm(activeCategory.val, meta.title))

C5_Witness ==
    /\ meta.some
    /\ activeCategory.some
    /\ activeCategory.val # <<>>
    /\ lastEvent = "activeCategory"
    /\ title = Some(PrefixedForm(activeCategory.val, meta.title))

(***************************************************************************)
(* C6: with metadata present and the active category absent, the title is  *)
(* the bare form "<m.title> | FastEndpoints": no prefix, no ": ".          *)
(***************************************************************************)
C6_AbsentCategoryBare ==
    (meta.some /\ ~activeCategory.some) => title = Some(BareForm(meta.title))

C6_Witness ==
    /\ meta.some
    /\ ~activeCategory.some
    /\ lastEvent = "activeCategory"
    /\ meta.title # <<>>
    /\ title = Some(BareForm(meta.title))

(***************************************************************************)
(* C7: the derived title is present if and only if the metadata of the     *)
(* current page is present.                                                *)
(***************************************************************************)
C7_TitleIffMeta == title.some <=> meta.some

C7_Witness ==
    /\ ~meta.some
    /\ ~title.some
    /\ lastEvent = "meta"
    /\ docTitle.some

(***************************************************************************)
(* C8: a component update whose event leaves the navigation value, the     *)
(* metadata, the active category and the page path as they were leaves the *)
(* category prefix, the title, the document title and the indicator as     *)
(* they were and sends no further start() or done() for the navigation     *)
(* value.                                                                  *)
(***************************************************************************)
C8_Idempotent ==
    [][(/\ navigating' = navigating
        /\ meta' = meta
        /\ activeCategory' = activeCategory
        /\ pathname' = pathname)
       => (/\ category' = category
           /\ title' = title
           /\ docTitle' = docTitle
           /\ visible' = visible
           /\ starts' = starts
           /\ dones' = dones)]_vars

C8_Witness ==
    /\ sameInputs
    /\ titleRuns = 1
    /\ lastEvent = "meta"
    /\ OtherPath(navigating)
    /\ visible

(***************************************************************************)
(* C9 as stated: the update of every page load and of every change of the  *)
(* active category runs the title statement exactly once.                  *)
(***************************************************************************)
C9_TitleRunsOncePerEvent ==
    lastEvent \in {"page", "activeCategory"} => titleRuns = 1

(***************************************************************************)
(* C9 as amended: the update of a page load or of a change of the active   *)
(* category runs the title statement once when the event assigns the       *)
(* metadata (old or new metadata present) or changes the derived category  *)
(* prefix, and not at all otherwise.                                       *)
(***************************************************************************)
C9_TitleRunsAmended ==
    [][lastEvent' \in {"page", "activeCategory"}
       => titleRuns' =
            IF \/ lastEvent' = "page" /\ (meta.some \/ meta'.some)
               \/ category' # category
            THEN 1 ELSE 0]_vars

C9_Witness ==
    /\ lastEvent = "activeCategory"
    /\ titleRuns = 0
    /\ activeCategory = Some(<<>>)
    /\ meta.some

(***************************************************************************)
(* C10: whenever a title is derived, the document title equals the title   *)
(* derived from the current metadata and the current active category.      *)
(***************************************************************************)
C10_DocTitleIsCurrentTitle ==
    title.some => (docTitle = title /\ title = TitleOf(meta, CategoryOf(activeCategory)))

C10_Witness ==
    /\ title.some
    /\ lastEvent = "activeCategory"
    /\ titleRuns = 1
    /\ docTitle = title

(***************************************************************************)
(* The signals the progress rule sends for one navigation value.           *)
(***************************************************************************)
SignalsFor(nav) ==
    IF OtherPath(nav) THEN <<"start">>
    ELSE IF ~nav.some THEN <<"done">> ELSE <<>>

C12_NoErrorOutcome ==
    /\ ~failed
    /\ ~meta.some
         => /\ ~title.some
            /\ starts = (IF OtherPath(navigating) THEN 1 ELSE 0)
            /\ dones = (IF navigating.some THEN 0 ELSE 1)

C12_Witness ==
    /\ ~meta.some
    /\ lastEvent = "meta"
    /\ OtherPath(navigating)
    /\ visible
    /\ ~failed

(***************************************************************************)
(* C13: an update caused by another input leaves the navigation value and  *)
(* the metadata as they were: a metadata or category event does not change *)
(* the navigation value, a page load does not change it either, and a      *)
(* navigation or category event does not change the metadata.              *)
(***************************************************************************)
C13_InputsOnlyRead ==
    [][/\ lastEvent' \in {"meta", "activeCategory", "page"}
            => navigating' = navigating
       /\ lastEvent' \in {"navigating", "activeCategory"}
            => meta' = meta]_vars

C13_Witness ==
    /\ lastEvent = "activeCategory"
    /\ SamePath(navigating)
    /\ meta.some
    /\ titleRuns = 1

(***************************************************************************)
(* C14: the progress indicator is configured once, at construction, with   *)
(* minimum 0.16, easing 'ease' and no spinner, and every later event       *)
(* leaves these settings as they are.                                      *)
(***************************************************************************)
C14_ProgressConfigStatic ==
    /\ progressConfig.minimum = 16
    /\ progressConfig.easing = "ease"
    /\ progressConfig.showSpinner = FALSE
    /\ configureCalls = 1

C14_Witness ==
    /\ lastEvent = "page"
    /\ repeated
    /\ visible
    /\ ~progressConfig.showSpinner
    /\ configureCalls = 1

(***************************************************************************)
(* C15: no event changes a field of the site configuration, and every tag  *)
(* and prop rendered from it alone (description, keywords, the open-graph  *)
(* type, site name, description, title and locale, the search credentials  *)
(* and the social links) has the configuration's value on every page.      *)
(***************************************************************************)
C15_SiteConfigReadOnly ==
    /\ siteConfig = SiteConfig
    /\ rendered.description = SiteConfig.seoDescription
    /\ rendered.keywords = <<"k", ",", " ", "w">>
    /\ rendered.ogType = SiteConfig.ogType
    /\ rendered.ogSiteName = SiteConfig.ogSiteName
    /\ rendered.ogDescription = SiteConfig.ogDescription
    /\ rendered.ogTitle = SiteConfig.ogTitle
    /\ rendered.ogLocale = SiteConfig.ogLocale
    /\ rendered.apiKey = SiteConfig.algoliaApiKey
    /\ rendered.appId = SiteConfig.algoliaAppId
    /\ rendered.github = SiteConfig.github
    /\ rendered.discord = SiteConfig.discord

C15_Witness ==
    /\ lastEvent = "page"
    /\ pathname = <<"/", "a">>
    /\ description.some
    /\ rendered.description = SiteConfig.seoDescription

(***************************************************************************)
(* C16: one run of the progress rule sends at most one signal: start()     *)
(* only for a present navigation value, done() only for an absent one,     *)
(* never both.                                                             *)
(***************************************************************************)
C16_AtMostOneSignalPerRun ==
    /\ Len(lastSignals) <= 1
    /\ lastSignals = <<"start">> => navigating.some
    /\ lastSignals = <<"done">> => ~navigating.some

C16_Witness ==
    /\ lastSignals = <<"start">>
    /\ lastEvent = "navigating"
    /\ navigating.some
    /\ ~restarted

(***************************************************************************)
(* C17: if the router ends every transition it starts, every update that   *)
(* sends start() is eventually followed by an update that sends done().    *)
(***************************************************************************)
C17_StartLeadsToDone ==
    (lastSignals = <<"start">>) ~> (lastSignals = <<"done">>)

C17_Witness ==
    /\ lastSignals = <<"done">>
    /\ lastEvent = "navigating"
    /\ repeated
    /\ ~visible
    /\ ~restarted

(***************************************************************************)
(* C18: when a transition in flight is replaced directly by another        *)
(* transition, the replacement sends no done(); if the new transition has  *)
(* differing paths it sends start(): when the replaced transition had set  *)
(* the indicator going, that is a second start() with no done() between.   *)
(***************************************************************************)
C18_ReplacementRestarts ==
    [][(navigating.some /\ navigating'.some /\ lastEvent' = "navigating")
       => (/\ lastSignals' # <<"done">>
           /\ lastSignals' # <<"start", "done">>
           /\ OtherPath(navigating')
                => /\ lastSignals' = <<"start">>
                   /\ visible => restarted')]_vars

C18_Witness ==
    /\ restarted
    /\ lastSignals = <<"start">>
    /\ lastEvent = "navigating"
    /\ repeated
    /\ visible

(***************************************************************************)
(* C19: a component constructed with no transition in flight has run the   *)
(* progress rule once: it has sent done() once and start() never, so the   *)
(* first signal of the indicator is a done() without an earlier start().   *)
(***************************************************************************)
C19_InitialDone ==
    (lastEvent = "init" /\ ~navigating.some)
        => (/\ lastSignals = <<"done">>
            /\ starts = 0
            /\ dones = 1
            /\ ~restarted
            /\ ~visible)

C19_Witness ==
    /\ lastEvent = "init"
    /\ ~navigating.some
    /\ lastSignals = <<"done">>
    /\ dones = 1

(***************************************************************************)
(* C20: the update of a metadata or active-category event sends neither    *)
(* start() nor done() and leaves the indicator as it was.                  *)
(***************************************************************************)
C20_MetaAndCategorySendNoSignal ==
    [][lastEvent' \in {"meta", "activeCategory"}
       => (/\ lastSignals' = <<>>
           /\ starts' = starts
           /\ dones' = dones
           /\ restarted' = restarted
           /\ visible' = visible)]_vars

C20_Witness ==
    /\ lastEvent = "meta"
    /\ ~sameInputs
    /\ lastSignals = <<>>
    /\ OtherPath(navigating)
    /\ visible

(***************************************************************************)
(* C21: the update of a navigation event leaves the category prefix, the   *)
(* title and the document title as they were, and the title is always the  *)
(* one derived from the metadata and the active category.                  *)
(***************************************************************************)
C21_NavigationKeepsTitle ==
    /\ [](title = IF meta.some
                  THEN Some(CategoryOf(activeCategory) \o BareForm(meta.title))
                  ELSE None)
    /\ [][lastEvent' = "navigating"
          => (/\ category' = category
              /\ title' = title
              /\ docTitle' = docTitle)]_vars

C21_Witness ==
    /\ lastEvent = "navigating"
    /\ ~sameInputs
    /\ title.some
    /\ activeCategory.some
    /\ activeCategory.val # <<>>
    /\ titleRuns = 0

(***************************************************************************)
(* C22: with the active category the empty string the prefix is empty, as  *)
(* for an absent category: the title is the bare form, without ": ".       *)
(***************************************************************************)
C22_EmptyCategoryIsAbsent ==
    activeCategory = Some(<<>>)
        => /\ category = <<>>
           /\ meta.some => title = Some(BareForm(meta.title))
           /\ ~meta.some => ~title.some

C22_Witness ==
    /\ activeCategory = Some(<<>>)
    /\ lastEvent = "activeCategory"
    /\ meta.some
    /\ meta.title # <<>>
    /\ titleRuns = 1
    /\ title = Some(BareForm(meta.title))

(***************************************************************************)
(* C23: the description tag carries the site-wide description whatever the *)
(* page's description; the per-page description is derived from the        *)
(* metadata, and a change of it leaves the tag as it was.                  *)
(***************************************************************************)
C23_DescriptionTagSiteWide ==
    /\ [](description = IF meta.some THEN meta.description ELSE None)
    /\ [][description' # description
          => (/\ rendered'.description = rendered.description
              /\ rendered'.description = siteConfig.seoDescription)]_vars

C23_Witness ==
    /\ description.some
    /\ lastEvent = "page"
    /\ repeated
    /\ rendered.description # description.val
    /\ rendered.description = siteConfig.seoDescription

(***************************************************************************)
(* C24: the og:url tag is the site URL followed by the path of the current *)
(* page, also right after a page load that changed the path.               *)
(***************************************************************************)
C24_OgUrlIsCurrentPage == rendered.ogUrl = siteConfig.siteUrl \o pathname

C24_Witness ==
    /\ lastEvent = "page"
    /\ navigating.some
    /\ navigating.from # navigating.to
    /\ pathname = <<"/", "a">>
    /\ rendered.ogUrl = <<"u", "/", "a">>

====
